---- MODULE Spec2Model ----
(***************************************************************************)
(* vim-or-emacs.ari.lt (src/src/main.py): a poll with one table of votes,  *)
(* a moving-window rate limiter held in memory, a POST / handler that      *)
(* stores a vote and four read handlers.                                   *)
(*                                                                         *)
(* Time is in seconds.  A request is handled by its own thread: POST / is  *)
(* modelled in two steps (the limiter and the parsing of the form; the     *)
(* database transaction and the answer), so that requests handled at the   *)
(* same time interleave and the clock may advance in between.  The read    *)
(* handlers issue one query each and are one step.                         *)
(***************************************************************************)
EXTENDS Integers, Sequences, FiniteSets, TLC

VARIABLES
    now,        \* the server clock (time.time(), datetime.utcnow()), seconds
    tzoffset,   \* the server's local zone, seconds east of UTC
    votes,      \* the table of Vote rows, in insertion order
    cast,       \* history: cast[k] is the submission that stored votes[k]
    events,     \* the limiter's storage: key -> times of the hits, newest first
    served,     \* history: (client, endpoint) -> times of the requests not answered 429
    inflight,   \* POST / requests past the limiter and the parsing, not yet answered
    resp,       \* the latest response sent
    nreq        \* number of requests received

vars == <<now, tzoffset, votes, cast, events, served, inflight, resp, nreq>>

----------------------------------------------------------------------------
(* Bounds of the model *)

\* requests received in a behaviour of Spec
MaxReq == 2
\* POST / requests in their transaction at the same time
MaxInflight == 2
\* clock advances in a behaviour of Spec
MaxTime == 2
\* rows of the table in an initial state of SpecRead
MaxVotes == 4
\* requests received in a behaviour of SpecRead
MaxReadReq == 1
\* requests received in a behaviour of SpecLimiter
MaxBurst == 7
\* seconds the clock advances in a behaviour of SpecLimiter
MaxLimiterTime == 2

----------------------------------------------------------------------------
(* Program constants *)

\* "1 per day", the limit of POST /
VoteLimitAmount == 1
SecondsPerDay == 86400
\* "30 per minute", "6 per second", the default limits
MinuteLimitAmount == 30
SecondsPerMinute == 60
SecondLimitAmount == 6
SecondsPerSecond == 1

None == "None"

Clients == {"c1", "c2"}

\* class Editor(Enum): vim = auto(); emacs = auto()   (values 1 and 2)
Editor == <<"vim", "emacs">>

\* Editor.all(): tuple(cls)
Editor_all == Editor

\* editor.value
EditorValue(e) == CHOOSE i \in 1..Len(Editor) : Editor[i] = e

\* Editor(n): the member of value n, ValueError otherwise
EditorByValue(n) == IF n \in 1..Len(Editor) THEN Editor[n] ELSE "ValueError"

----------------------------------------------------------------------------
(* Text of a form field or of a query parameter: absent, or a sequence of  *)
(* characters.  int(text) as Python computes it for base 10.               *)

Absent == [present |-> FALSE, text |-> <<>>]
Text(s) == [present |-> TRUE, text |-> s]

DigitChars == {"0", "1", "2", "3", "4", "5", "6", "7", "8", "9"}

DigitValue(c) ==
    CASE c = "0" -> 0 [] c = "1" -> 1 [] c = "2" -> 2 [] c = "3" -> 3
      [] c = "4" -> 4 [] c = "5" -> 5 [] c = "6" -> 6 [] c = "7" -> 7
      [] c = "8" -> 8 [] c = "9" -> 9

RECURSIVE LStrip(_)
LStrip(s) == IF s # <<>> /\ Head(s) = " " THEN LStrip(Tail(s)) ELSE s

RECURSIVE RStrip(_)
RStrip(s) ==
    IF s # <<>> /\ s[Len(s)] = " " THEN RStrip(SubSeq(s, 1, Len(s) - 1)) ELSE s

\* digits, with single underscores allowed between two digits
DigitsOK(s) ==
    /\ s # <<>>
    /\ s[1] \in DigitChars
    /\ s[Len(s)] \in DigitChars
    /\ \A i \in 1..Len(s) : s[i] \in DigitChars \cup {"_"}
    /\ \A i \in 1..(Len(s) - 1) : ~(s[i] = "_" /\ s[i + 1] = "_")

RECURSIVE DigitsValue(_, _)
DigitsValue(s, acc) ==
    IF s = <<>> THEN acc
    ELSE IF Head(s) = "_" THEN DigitsValue(Tail(s), acc)
    ELSE DigitsValue(Tail(s), 10 * acc + DigitValue(Head(s)))

\* int(s): [ok |-> FALSE] stands for ValueError
PyInt(s) ==
    LET t == RStrip(LStrip(s))
        signed == t # <<>> /\ Head(t) \in {"+", "-"}
        body == IF signed THEN Tail(t) ELSE t
        mag == DigitsValue(body, 0)
    IN  IF DigitsOK(body)
        THEN [ok |-> TRUE, val |-> IF signed /\ Head(t) = "-" THEN 0 - mag ELSE mag]
        ELSE [ok |-> FALSE, val |-> 0]

\* request.args.get(name, default=None, type=int): {} stands for None
ArgInt(a) ==
    IF ~a.present THEN {}
    ELSE IF PyInt(a.text).ok THEN {PyInt(a.text).val} ELSE {}

----------------------------------------------------------------------------
(* The rate limiter: Limiter(get_remote_address, default_limits=["30 per   *)
(* minute", "6 per second"], storage_uri="memory://",                      *)
(* strategy="moving-window") and @limiter.limit("1 per day") on vote.      *)

\* the view functions behind the routes this model covers
Endpoints == {"index", "vote", "votes", "editors_json", "votes_json", "stats_json"}

VoteLimit == [amount |-> VoteLimitAmount, expiry |-> SecondsPerDay]

default_limits ==
    { [amount |-> MinuteLimitAmount, expiry |-> SecondsPerMinute],
      [amount |-> SecondLimitAmount, expiry |-> SecondsPerSecond] }

AllLimits == default_limits \cup {VoteLimit}

\* The limits checked before a view function runs.  A limit given with
\* @limiter.limit replaces the default limits of that route
\* (override_defaults is left at True); every other route has the defaults.
LimitsFor(ep) == IF ep = "vote" THEN {VoteLimit} ELSE default_limits

\* The storage key of a limit: the remote address, the endpoint (neither
\* limit is shared between routes) and the limit itself.
Keys == {k \in Clients \X Endpoints \X AllLimits : k[3] \in LimitsFor(k[2])}

\* acquire_entry reading the entry one place too far back
acquire_entry_wrong_index(entries, limit, t) ==
    ~(Len(entries) >= limit.amount + 1
        /\ entries[limit.amount + 1] >= t - limit.expiry)

\* acquire_entry with the window open at its far end (> for >=)
acquire_entry_open_window(entries, limit, t) ==
    ~(Len(entries) >= limit.amount /\ entries[limit.amount] > t - limit.expiry)

\* moving window, one hit: refused when the entry `amount` places back is
\* still inside the window (entry.atime >= timestamp - expiry)
acquire_entry(entries, limit, t) ==
    ~(Len(entries) >= limit.amount /\ entries[limit.amount] >= t - limit.expiry)

\* LimiterPasses letting a request pass when one of the limits admits it
LimiterPasses_any(c, ep) ==
    \E l \in LimitsFor(ep) : acquire_entry(events[<<c, ep, l>>], l, now)

\* every limit of the route is hit; the request passes when none refuses
LimiterPasses(c, ep) ==
    \A l \in LimitsFor(ep) : acquire_entry(events[<<c, ep, l>>], l, now)

LimiterHit(c, ep) ==
    [k \in Keys |->
        IF k[1] = c /\ k[2] = ep /\ acquire_entry(events[k], k[3], now)
        THEN <<now>> \o events[k]
        ELSE events[k]]

\* history: the request is recorded as served unless the limiter refused it
ServedAfter(c, ep) ==
    IF LimiterPasses(c, ep)
    THEN [served EXCEPT ![<<c, ep>>] = <<now>> \o @]
    ELSE served

\* history: this client's earlier requests to ep that passed the limiter
\* no longer than `expiry` seconds ago
RecentServed(c, ep, expiry) ==
    Cardinality({i \in DOMAIN served[<<c, ep>>] : served[<<c, ep>>][i] >= now - expiry})

----------------------------------------------------------------------------
(* Responses.  One shape for all handlers; a handler fills its own fields. *)

NoQuery == [from |-> Absent, to |-> Absent, editor |-> Absent]

NoBody ==
    [ vid |-> 0, location |-> None, flashed |-> 0,
      winner |-> [editor |-> None, count |-> 0],
      rows |-> {}, total |-> 0, counts |-> <<>>, latest |-> {}, first |-> {} ]

NoResponse ==
    [ kind |-> None, client |-> None, status |-> 0, at |-> 0, seen |-> 0,
      prior |-> 0, form |-> Absent, query |-> NoQuery, body |-> NoBody ]

\* the response of endpoint ep to client c, received now
Response(c, ep, status) ==
    [NoResponse EXCEPT !.kind = ep, !.client = c, !.status = status,
                       !.at = now, !.seen = Len(votes)]

\* error_handler for code 429 (after time.sleep(random() * 15), which only
\* postpones the answer): text/plain "too many requests", 429
TooManyRequests(c, ep) == Response(c, ep, 429)

----------------------------------------------------------------------------
(* The table of votes (class Vote) and the transaction of POST /.          *)

RECURSIVE MaxId(_)
MaxId(rows) ==
    IF rows = <<>> THEN 0
    ELSE LET m == MaxId(Tail(rows))
         IN  IF Head(rows).id > m THEN Head(rows).id ELSE m

\* NewVote stamped with a date only: the time of day is lost
NewVote_date_only(editor) ==
    [id |-> MaxId(votes) + 1, editor |-> editor,
     voted |-> now - (now % SecondsPerDay)]

\* Vote(editor), db.session.add(vote), db.session.commit(): the row gets the
\* next integer primary key and voted = datetime.utcnow() at the insert
NewVote(editor) == [id |-> MaxId(votes) + 1, editor |-> editor, voted |-> now]

\* ParseVoe without the check that the number is an ordinal: any other
\* number selects the first editor
ParseVoe_any_number(form) ==
    IF ~form.present \/ form.text = <<>> THEN "BadRequest"
    ELSE LET n == PyInt(form.text)
         IN  IF ~n.ok THEN "BadRequest"
             ELSE IF EditorByValue(n.val) = "ValueError" THEN Editor[1]
             ELSE EditorByValue(n.val)

\* voe = request.form.get("voe"); 400 unless voe is non-empty, int(voe)
\* parses and Editor(int(voe)) exists
ParseVoe(form) ==
    IF ~form.present \/ form.text = <<>> THEN "BadRequest"
    ELSE LET n == PyInt(form.text)
         IN  IF ~n.ok THEN "BadRequest"
             ELSE IF EditorByValue(n.val) = "ValueError" THEN "BadRequest"
             ELSE EditorByValue(n.val)

\* POST /, first step: the limiter (before the view function), then the
\* parsing of the form.  A request that passes both enters its transaction.
vote_receive(c, form) ==
    LET r == [Response(c, "vote", 0) EXCEPT
                  !.form = form,
                  !.prior = RecentServed(c, "vote", SecondsPerDay)]
    IN  /\ events' = LimiterHit(c, "vote")
        /\ served' = ServedAfter(c, "vote")
        /\ nreq' = nreq + 1
        /\ IF ~LimiterPasses(c, "vote")
           THEN /\ resp' = [r EXCEPT !.status = 429]
                /\ UNCHANGED inflight
           ELSE IF ParseVoe(form) = "BadRequest"
           THEN /\ resp' = [r EXCEPT !.status = 400]
                /\ UNCHANGED inflight
           ELSE /\ inflight' = inflight \cup {[req |-> r, editor |-> ParseVoe(form)]}
                /\ UNCHANGED resp
        /\ UNCHANGED <<now, tzoffset, votes, cast>>

\* POST /, second step, the commit raises: db.session.rollback(), abort(500)
vote_rollback(q) ==
    /\ q \in inflight
    /\ inflight' = inflight \ {q}
    /\ resp' = [q.req EXCEPT !.status = 500]
    /\ UNCHANGED <<now, tzoffset, votes, cast, events, served, nreq>>

\* the committed insert, with its history entry
Insert(q) ==
    /\ votes' = Append(votes, NewVote(q.editor))
    /\ cast' = Append(cast, [client |-> q.req.client, at |-> q.req.at])

\* POST /, second step, nothing raises: the row is committed, the message
\* with vote.id is flashed and the client is redirected to /
vote_commit(q) ==
    /\ q \in inflight
    /\ inflight' = inflight \ {q}
    /\ Insert(q)
    /\ resp' = [q.req EXCEPT !.status = 302,
                             !.body.vid = NewVote(q.editor).id,
                             !.body.flashed = NewVote(q.editor).id,
                             !.body.location = "/"]
    /\ UNCHANGED <<now, tzoffset, events, served, nreq>>

\* POST /, second step, the commit succeeds and a later statement of the
\* same try block raises (vote.id is expired by the commit and is read back
\* from the database inside the flash message): db.session.rollback() finds
\* nothing to undo, abort(500)
vote_flash_error(q) ==
    /\ q \in inflight
    /\ inflight' = inflight \ {q}
    /\ Insert(q)
    /\ resp' = [q.req EXCEPT !.status = 500,
                             !.body.vid = NewVote(q.editor).id]
    /\ UNCHANGED <<now, tzoffset, events, served, nreq>>

----------------------------------------------------------------------------
(* The read handlers.                                                      *)

\* a GET handler: the limiter, then the view function's response r
Get(c, ep, r) ==
    /\ events' = LimiterHit(c, ep)
    /\ served' = ServedAfter(c, ep)
    /\ nreq' = nreq + 1
    /\ resp' = IF LimiterPasses(c, ep) THEN r ELSE TooManyRequests(c, ep)
    /\ UNCHANGED <<now, tzoffset, votes, cast, inflight>>

\* func.count(Vote.editor) of one group
CountOf(e) == Cardinality({i \in DOMAIN votes : votes[i].editor = e})

\* the orders in which .group_by(Vote.editor).all() may return the groups:
\* one (editor, count) per editor that has a row
GroupOrders ==
    LET G == {e \in {Editor[i] : i \in DOMAIN Editor} : CountOf(e) > 0}
    IN  {o \in [1..Cardinality(G) -> G] :
            \A i, j \in DOMAIN o : i # j => o[i] # o[j]}

editor_counts(order) ==
    [i \in DOMAIN order |-> [editor |-> order[i], count |-> CountOf(order[i])]]

\* sorted(..., key=itemgetter(1), reverse=True): stable, larger counts first
RECURSIVE InsertByCount(_, _)
InsertByCount(x, s) ==
    IF s = <<>> THEN <<x>>
    ELSE IF Head(s).count >= x.count THEN <<Head(s)>> \o InsertByCount(x, Tail(s))
    ELSE <<x>> \o s

RECURSIVE SortedByCount(_)
SortedByCount(s) ==
    IF s = <<>> THEN <<>>
    ELSE InsertByCount(s[Len(s)], SortedByCount(SubSeq(s, 1, Len(s) - 1)))

\* final_result comparing the groups in the order the query returned them
final_result_unsorted(order) ==
    LET ec == editor_counts(order)
    IN  IF Len(ec) = 0 THEN [editor |-> None, count |-> 0]
        ELSE IF Len(ec) = 1 THEN ec[1]
        ELSE IF ec[1].count > ec[2].count
             THEN ec[1]
             ELSE [editor |-> None, count |-> ec[1].count]

\* final_result of index()
final_result(order) ==
    LET ec == editor_counts(order)
    IN  IF Len(ec) = 0 THEN [editor |-> None, count |-> 0]
        ELSE IF Len(ec) = 1 THEN ec[1]
        ELSE LET sorted_counts == SubSeq(SortedByCount(ec), 1, 2)
             IN  IF sorted_counts[1].count > sorted_counts[2].count
                 THEN sorted_counts[1]
                 ELSE [editor |-> None, count |-> sorted_counts[1].count]

\* GET /
index(c, order) ==
    Get(c, "index", [Response(c, "index", 200) EXCEPT !.body.winner = final_result(order)])

\* datetime.timestamp() of the naive UTC datetime in column voted: the value
\* is read as local time
Timestamp(dt) == dt - tzoffset

\* Filtered with an editor filter that matches no row when its value is
\* no ordinal
Filtered_strict(q) ==
    LET from_id == ArgInt(q.from)
        to_id == ArgInt(q.to)
        editor == ArgInt(q.editor)
    IN  {i \in DOMAIN votes :
            /\ \A f \in from_id : votes[i].id >= f
            /\ \A t \in to_id : votes[i].id <= t
            /\ \A e \in editor : votes[i].editor = EditorByValue(e)}

\* the filters of votes_json()
Filtered(q) ==
    LET from_id == ArgInt(q.from)
        to_id == ArgInt(q.to)
        editor == ArgInt(q.editor)
    IN  {i \in DOMAIN votes :
            /\ \A f \in from_id : votes[i].id >= f
            /\ \A t \in to_id : votes[i].id <= t
            /\ \A e \in editor :
                   EditorByValue(e) # "ValueError" => votes[i].editor = EditorByValue(e)}

\* GET /votes.json
votes_json(c, q) ==
    Get(c, "votes_json",
        [Response(c, "votes_json", 200) EXCEPT
            !.query = q,
            !.body.rows = {[id |-> votes[i].id,
                            editor |-> EditorValue(votes[i].editor),
                            voted |-> Timestamp(votes[i].voted)] : i \in Filtered(q)}])

\* max(votes, key=voted).voted and min(votes, key=voted).voted; {} is None
latest_vote == {votes[i].voted : i \in {j \in DOMAIN votes :
                    \A k \in DOMAIN votes : votes[j].voted >= votes[k].voted}}
first_vote == {votes[i].voted : i \in {j \in DOMAIN votes :
                    \A k \in DOMAIN votes : votes[j].voted <= votes[k].voted}}

\* vote_counts with entries only for the editors that have rows
vote_counts_sparse(rows) ==
    [v \in {EditorValue(rows[i].editor) : i \in DOMAIN rows} |->
        Cardinality({i \in DOMAIN rows : EditorValue(rows[i].editor) = v})]

\* vote_counts of stats_json(): an entry 0 per editor, then one pass over the rows
RECURSIVE vote_counts(_)
vote_counts(rows) ==
    IF rows = <<>> THEN [v \in DOMAIN Editor_all |-> 0]
    ELSE LET rest == vote_counts(SubSeq(rows, 1, Len(rows) - 1))
             v == EditorValue(rows[Len(rows)].editor)
         IN  [rest EXCEPT ![v] = @ + 1]

\* GET /stats.json
stats_json(c) ==
    Get(c, "stats_json",
        [Response(c, "stats_json", 200) EXCEPT
            !.body.total = Len(votes),
            !.body.counts = vote_counts(votes),
            !.body.latest = {Timestamp(t) : t \in latest_vote},
            !.body.first = {Timestamp(t) : t \in first_vote}])

\* GET /votes and GET /editors.json: a template and the enumeration
static(c, ep) == Get(c, ep, Response(c, ep, 200))

----------------------------------------------------------------------------
(* The requests the clients send, and the clock.                           *)

\* values of the form field voe: missing, empty, "1", "2", "0", "99", "x"
VoeInputs ==
    { Absent, Text(<<>>), Text(<<"1">>), Text(<<"2">>), Text(<<"0">>),
      Text(<<"9", "9">>), Text(<<"x">>) }

\* values of the query parameter from: missing, "2", "x"
FromInputs == {Absent, Text(<<"2">>), Text(<<"x">>)}

\* values of the query parameter to: missing, "1", "3"
ToInputs == {Absent, Text(<<"1">>), Text(<<"3">>)}

\* values of the query parameter editor: missing, "1", " 2", "0", "3", "x"
EditorInputs ==
    {Absent, Text(<<"1">>), Text(<<" ", "2">>), Text(<<"0">>), Text(<<"3">>), Text(<<"x">>)}

Queries == [from : FromInputs, to : ToInputs, editor : EditorInputs]

\* zones of the server: UTC, UTC+1
TzOffsets == {0, 3600}

Tick(d) ==
    /\ now' = now + d
    /\ UNCHANGED <<tzoffset, votes, cast, events, served, inflight, resp, nreq>>

\* the number of advances of one second or one day that lead to time t
Elapsed(t) == (t \div SecondsPerDay) + (t % SecondsPerDay)

\* the process starts: db.create_all() on a new database, an empty limiter
Init ==
    /\ now = 0
    /\ tzoffset = 0
    /\ votes = <<>>
    /\ cast = <<>>
    /\ events = [k \in Keys |-> <<>>]
    /\ served = [k \in Clients \X Endpoints |-> <<>>]
    /\ inflight = {}
    /\ resp = NoResponse
    /\ nreq = 0

\* the queries sent while votes are being cast: no filter, editor=2
FewQueries == {NoQuery, [NoQuery EXCEPT !.editor = Text(<<"2">>)]}

\* the requests received, at most `max` of them, from the clients cs
PostVote(cs, forms, max) ==
    /\ nreq < max
    /\ Cardinality(inflight) < MaxInflight
    /\ \E c \in cs, form \in forms : vote_receive(c, form)

GetIndex(cs, max) ==
    nreq < max /\ \E c \in cs, order \in GroupOrders : index(c, order)

GetVotesJson(cs, qs, max) ==
    nreq < max /\ \E c \in cs, q \in qs : votes_json(c, q)

GetStatsJson(cs, max) ==
    nreq < max /\ \E c \in cs : stats_json(c)

GetStatic(cs, eps, max) ==
    nreq < max /\ \E c \in cs, ep \in eps : static(c, ep)

\* the ends of the transaction of a POST / in progress
Rollback == \E q \in inflight : vote_rollback(q)

Commit == \E q \in inflight : vote_commit(q)

FlashError == \E q \in inflight : vote_flash_error(q)

Advance ==
    \E d \in {1, SecondsPerDay} : Elapsed(now) < MaxTime /\ Tick(d)

Next ==
    \/ PostVote(Clients, VoeInputs, MaxReq)
    \/ GetIndex(Clients, MaxReq)
    \/ GetVotesJson(Clients, FewQueries, MaxReq)
    \/ GetStatsJson(Clients, MaxReq)
    \/ GetStatic(Clients, {"votes"}, MaxReq)
    \/ Rollback
    \/ Commit
    \/ FlashError
    \/ Advance

Spec == Init /\ [][Next]_vars

----------------------------------------------------------------------------
(* Reads of a table that already holds rows: the process has been started  *)
(* on the database of an earlier run (the limiter's memory is new).        *)

\* the tables of at most MaxVotes rows: ids 1..n, any editors, the rows of
\* the first m inserted at time 0 and the others at time 1
Stores ==
    UNION { { [i \in 1..n |-> [id |-> i, editor |-> e[i],
                               voted |-> IF i <= m THEN 0 ELSE 1]] :
                e \in [1..n -> {Editor[j] : j \in DOMAIN Editor}], m \in 0..n }
            : n \in 0..MaxVotes }

InitRead ==
    /\ now = 2
    /\ tzoffset \in TzOffsets
    /\ votes \in Stores
    /\ cast = [k \in DOMAIN votes |-> [client |-> None, at |-> votes[k].voted]]
    /\ events = [k \in Keys |-> <<>>]
    /\ served = [k \in Clients \X Endpoints |-> <<>>]
    /\ inflight = {}
    /\ resp = NoResponse
    /\ nreq = 0

NextRead ==
    \/ GetIndex({"c1"}, MaxReadReq)
    \/ GetVotesJson({"c1"}, Queries, MaxReadReq)
    \/ GetStatsJson({"c1"}, MaxReadReq)
    \/ GetStatic({"c1"}, {"votes", "editors_json"}, MaxReadReq)

SpecRead == InitRead /\ [][NextRead]_vars

----------------------------------------------------------------------------
(* Bursts of requests of one client, from the start of the process or      *)
(* after 24 answered GET / requests, six in each of the seconds -8, -6,    *)
(* -4 and -2.                                                              *)

WarmHits == [i \in 1..24 |-> 0 - 2 * (((i - 1) \div 6) + 1)]

InitLimiter ==
    /\ now = 0
    /\ tzoffset = 0
    /\ votes = <<>>
    /\ cast = <<>>
    /\ \E warm \in {<<>>, WarmHits} :
        /\ events = [k \in Keys |->
                        IF k[1] = "c1" /\ k[2] = "index" THEN warm ELSE <<>>]
        /\ served = [k \in Clients \X Endpoints |->
                        IF k = <<"c1", "index">> THEN warm ELSE <<>>]
    /\ inflight = {}
    /\ resp = NoResponse
    /\ nreq = 0

AdvanceSeconds ==
    \E d \in {1, 2} : now + d <= MaxLimiterTime /\ Tick(d)

NextLimiter ==
    \/ GetIndex({"c1"}, MaxBurst)
    \/ GetStatsJson({"c1"}, MaxBurst)
    \/ PostVote({"c1"}, {Text(<<"1">>)}, MaxBurst)
    \/ Rollback
    \/ Commit
    \/ FlashError
    \/ AdvanceSeconds

SpecLimiter == InitLimiter /\ [][NextLimiter]_vars

----------------------------------------------------------------------------
(* What the claims say, in terms of the history kept in cast, served and   *)
(* resp.                                                                   *)

\* the client of response r had, when r's request arrived, a stored vote
\* whose submission was no more than 24 hours old
VotedWithinDay(r) ==
    \E k \in 1..r.seen :
        /\ cast[k].client = r.client
        /\ r.at - cast[k].at <= SecondsPerDay

\* voe is the ordinal of an editor: "1" (vim) or "2" (emacs)
ValidVoe == {Text(<<"1">>), Text(<<"2">>)}

\* voe is missing, empty, not a number ("x") or a number that is no
\* ordinal ("0", "99")
MalformedVoe ==
    {Absent, Text(<<>>), Text(<<"x">>), Text(<<"0">>), Text(<<"9", "9">>)}

\* the editor a valid voe selects
Selected(form) == IF form = Text(<<"1">>) THEN "vim" ELSE "emacs"

\* the rows stored for the submission of client c that arrived at time t
RowsOf(c, t) == {k \in DOMAIN votes : cast[k] = [client |-> c, at |-> t]}

\* the submissions past the limiter: those with a stored row and those in
\* their transaction
Admitted ==
    {cast[k] : k \in DOMAIN cast}
        \cup {[client |-> q.req.client, at |-> q.req.at] : q \in inflight}

C2_SecondVoteRejected ==
    /\ resp.kind = "vote" /\ VotedWithinDay(resp) =>
           resp.status = 429 /\ resp.body.vid = 0
    /\ \A q \in inflight : ~VotedWithinDay(q.req)

\* a second submission, for the other editor, was answered 429 exactly 24
\* hours after the first
C2_Witness ==
    /\ resp.kind = "vote"
    /\ resp.status = 429
    /\ resp.form = Text(<<"2">>)
    /\ \E k \in 1..resp.seen :
           /\ cast[k].client = resp.client
           /\ votes[k].editor = "vim"
           /\ resp.at - cast[k].at = SecondsPerDay

(* C3, as claimed: a POST / with a valid ordinal in voe, from a client    *)
(* without a vote in the preceding 24 hours, whose write did not fail, is  *)
(* accepted: one new row with the selected editor and a timestamp not      *)
(* before the submission, and a redirect to /.                             *)
C3_Original ==
    ( /\ resp.kind = "vote"
      /\ resp.form \in ValidVoe
      /\ ~VotedWithinDay(resp)
      /\ ~(resp.status = 500 /\ resp.body.vid = 0) )
    => /\ resp.status = 302
       /\ resp.body.location = "/"
       /\ RowsOf(resp.client, resp.at) = {resp.body.vid}

(* C3, amended: a POST / with a valid ordinal in voe, from a client none   *)
(* of whose POST / submissions passed the limiter in the preceding 24      *)
(* hours (with or without a vote), whose commit did not fail, adds exactly *)
(* one row: its editor is the selected one, its id is new, its timestamp   *)
(* is not earlier than the submission.  The answer is the redirect to /    *)
(* with the new id in the flashed message, or 500 when the handler raised  *)
(* after the commit.                                                       *)
C3_Accepted ==
    ( /\ resp.kind = "vote"
      /\ resp.form \in ValidVoe
      /\ resp.prior = 0
      /\ ~(resp.status = 500 /\ resp.body.vid = 0) )
    => /\ resp.status \in {302, 500}
       /\ resp.status = 302 =>
              resp.body.location = "/" /\ resp.body.flashed = resp.body.vid
       /\ \E k \in DOMAIN votes :
              /\ RowsOf(resp.client, resp.at) = {k}
              /\ k > resp.seen
              /\ votes[k].id = resp.body.vid
              /\ \A j \in DOMAIN votes : j # k => votes[j].id # votes[k].id
              /\ votes[k].editor = Selected(resp.form)
              /\ votes[k].voted >= resp.at
              /\ votes[k].voted <= now

\* a vote for emacs was accepted a second after its submission, while the
\* table already held a row
C3_Witness ==
    /\ resp.kind = "vote"
    /\ resp.status = 302
    /\ resp.form = Text(<<"2">>)
    /\ resp.prior = 0
    /\ resp.seen >= 1
    /\ \E k \in RowsOf(resp.client, resp.at) : votes[k].voted > resp.at

(* C4, as claimed: a POST / whose voe is missing, empty, not a number or   *)
(* not an ordinal is answered 400 and stores nothing.                      *)
C4_Original ==
    resp.kind = "vote" /\ resp.form \in MalformedVoe =>
        resp.status = 400 /\ resp.body.vid = 0

(* C4, amended: a POST / whose voe is missing, empty, not a number or not  *)
(* an ordinal stores nothing; it is answered 400 when the limiter lets it  *)
(* pass, and 429 when a POST / of the same client passed the limiter in    *)
(* the preceding 24 hours.                                                 *)
C4_BadRequest ==
    resp.kind = "vote" /\ resp.form \in MalformedVoe =>
        /\ resp.body.vid = 0
        /\ resp.status = IF resp.prior = 0 THEN 400 ELSE 429

\* voe=0 was answered 400 while the table held a row
C4_Witness ==
    /\ resp.kind = "vote"
    /\ resp.form = Text(<<"0">>)
    /\ resp.status = 400
    /\ resp.seen >= 1
    /\ Len(votes) = resp.seen

(* C5: a POST / answered 500 has stored no row.                            *)
C5_Original ==
    resp.kind = "vote" /\ resp.status = 500 =>
        resp.body.vid = 0 /\ RowsOf(resp.client, resp.at) = {}

(* C6: GET / shows (none, 0) for an empty table, (the editor, its count)  *)
(* when one editor has all the rows, (the editor with more rows, its       *)
(* count) when the counts differ and (none, the count) when they are       *)
(* equal, in whatever order the query returned the groups.                 *)
C6_Winner ==
    resp.kind = "index" /\ resp.status = 200 =>
        LET v == CountOf("vim")
            e == CountOf("emacs")
        IN  resp.body.winner =
                IF v = 0 /\ e = 0 THEN [editor |-> None, count |-> 0]
                ELSE IF e = 0 THEN [editor |-> "vim", count |-> v]
                ELSE IF v = 0 THEN [editor |-> "emacs", count |-> e]
                ELSE IF v > e THEN [editor |-> "vim", count |-> v]
                ELSE IF e > v THEN [editor |-> "emacs", count |-> e]
                ELSE [editor |-> None, count |-> v]

\* emacs is shown winning 3 to 1, the first row being a vote for vim
C6_Witness ==
    /\ resp.kind = "index"
    /\ resp.body.winner = [editor |-> "emacs", count |-> 3]
    /\ CountOf("vim") = 1
    /\ votes[1].editor = "vim"

\* the number a query parameter of the model's inputs denotes, if any
Meaning(a) ==
    IF a = Text(<<"0">>) THEN {0}
    ELSE IF a = Text(<<"1">>) THEN {1}
    ELSE IF a = Text(<<"2">>) \/ a = Text(<<" ", "2">>) THEN {2}
    ELSE IF a = Text(<<"3">>) THEN {3}
    ELSE {}

\* what GET /votes.json is to return for query q
ExpectedRows(q) ==
    LET keep(row) ==
            /\ \A f \in Meaning(q.from) : row.id >= f
            /\ \A t \in Meaning(q.to) : row.id <= t
            /\ 1 \in Meaning(q.editor) => row.editor = "vim"
            /\ 2 \in Meaning(q.editor) => row.editor = "emacs"
    IN  { [id |-> votes[i].id,
           editor |-> IF votes[i].editor = "vim" THEN 1 ELSE 2,
           voted |-> Timestamp(votes[i].voted)] :
              i \in {j \in DOMAIN votes : keep(votes[j])} }

(* C7: GET /votes.json returns exactly the rows with id >= from and id <=  *)
(* to (for each of the two that is given as a number) and with the editor  *)
(* of the given ordinal, each with its own id, editor and timestamp; an    *)
(* editor value that is no number or no ordinal changes nothing.           *)
C7_VotesFilter ==
    resp.kind = "votes_json" /\ resp.status = 200 =>
        /\ resp.body.rows = ExpectedRows(resp.query)
        /\ Meaning(resp.query.editor) \cap {1, 2} = {} =>
               resp.body.rows = ExpectedRows([resp.query EXCEPT !.editor = Absent])

\* from=2&to=3&editor=0 returned rows 2 and 3 of a table of four
C7_Witness ==
    /\ resp.kind = "votes_json"
    /\ resp.query = [from |-> Text(<<"2">>), to |-> Text(<<"3">>),
                     editor |-> Text(<<"0">>)]
    /\ Len(votes) = 4
    /\ {r.id : r \in resp.body.rows} = {2, 3}

(* C8: GET /stats.json reports the number of rows as total, for every      *)
(* editor of the enumeration the number of its rows (0 when it has none),  *)
(* and counts that add up to total.                                        *)
C8_Stats ==
    resp.kind = "stats_json" /\ resp.status = 200 =>
        /\ resp.body.total = Len(votes)
        /\ DOMAIN resp.body.counts = {1, 2}
        /\ resp.body.counts[1] = Cardinality({i \in DOMAIN votes : votes[i].editor = "vim"})
        /\ resp.body.counts[2] = Cardinality({i \in DOMAIN votes : votes[i].editor = "emacs"})
        /\ resp.body.counts[1] + resp.body.counts[2] = resp.body.total

\* the statistics of three votes for vim and none for emacs
C8_Witness ==
    /\ resp.kind = "stats_json"
    /\ resp.body.total = 3
    /\ resp.body.counts = <<3, 0>>

(* C9: a step of the system keeps every stored row as it is, keeps the     *)
(* ids distinct and increasing, and changes the table only when it answers *)
(* a POST / with the redirect of an accepted vote.                         *)
C9_Original ==
    [][ /\ Len(votes') >= Len(votes)
        /\ \A i \in DOMAIN votes : votes'[i] = votes[i]
        /\ \A i, j \in DOMAIN votes' : i < j => votes'[i].id < votes'[j].id
        /\ votes' # votes => resp'.kind = "vote" /\ resp'.status = 302 ]_vars

\* the times at which a request of client c to endpoint ep was served: a
\* window with the most requests starts at one of them
ServedTimes(c, ep) == {served[<<c, ep>>][i] : i \in DOMAIN served[<<c, ep>>]}

\* served requests of client c, over all endpoints, in the w seconds from t
TotalServed(c, t, w) ==
    Cardinality({x \in UNION {{<<ep, i>> : i \in DOMAIN served[<<c, ep>>]} : ep \in Endpoints} :
        served[<<c, x[1]>>][x[2]] >= t /\ served[<<c, x[1]>>][x[2]] <= t + w})

\* served requests of client c to endpoint ep in the w seconds from t
ServedIn(c, ep, t, w) ==
    Cardinality({i \in DOMAIN served[<<c, ep>>] :
        served[<<c, ep>>][i] >= t /\ served[<<c, ep>>][i] <= t + w})

(* C10, as claimed: over all endpoints together, POST / included, a client *)
(* is served at most 6 requests in any second and at most 30 in any        *)
(* minute.                                                                 *)
C10_Original ==
    \A c \in Clients : \A ep \in Endpoints : \A t \in ServedTimes(c, ep) :
        /\ TotalServed(c, t, SecondsPerSecond) <= SecondLimitAmount
        /\ TotalServed(c, t, SecondsPerMinute) <= MinuteLimitAmount

(* C10, amended: for every client and every endpoint other than POST /,    *)
(* counted for that endpoint alone, at most 6 requests are served in any   *)
(* second and at most 30 in any minute; POST / has its own cap of one      *)
(* request per 24 hours instead of these two.                              *)
C10_PerEndpoint ==
    \A c \in Clients : \A ep \in Endpoints : \A t \in ServedTimes(c, ep) :
        IF ep = "vote"
        THEN ServedIn(c, ep, t, SecondsPerDay) <= VoteLimitAmount
        ELSE /\ ServedIn(c, ep, t, SecondsPerSecond) <= SecondLimitAmount
             /\ ServedIn(c, ep, t, SecondsPerMinute) <= MinuteLimitAmount

\* a GET / is answered 429 for the minute's limit alone: 30 were served in
\* the last minute, none in the last second
C10_Witness ==
    /\ resp.kind = "index"
    /\ resp.status = 429
    /\ ServedIn("c1", "index", now - SecondsPerMinute, SecondsPerMinute) = MinuteLimitAmount
    /\ ServedIn("c1", "index", now - SecondsPerSecond, SecondsPerSecond) = 0

====
